---- MODULE Spec2Model ----
(***************************************************************************)
(* A model of linker.py: the backup primitive safe_remove, the single      *)
(* entry operation safe_link, the batch install_links, the configuration   *)
(* resolver read_locations_file and main.                                  *)
(*                                                                         *)
(* A path component is a record [n, b]: n is the text before any backup    *)
(* suffix and b the sequence of numbers of the ".bkp_<i>" suffixes that    *)
(* follow it, so "a.bkp_0.bkp_2" is [n |-> "a", b |-> <<0, 2>>].  A path   *)
(* is a sequence of components; install paths are absolute.  The file      *)
(* system is a function from the real path of every existing entry to the  *)
(* entry; the root directory <<>> always exists.                           *)
(***************************************************************************)
EXTENDS Naturals, Sequences, FiniteSets, TLC

VARIABLES
    fs,         \* the file system: real path -> entry
    fs0,        \* the file system when the program started
    fsRun,      \* the file system when the current install_links call began
    fsPre,      \* the file system when the current entry (or call) began
    cfg,        \* the parsed TOML data: sequence of [dst, src] raw strings
    dstArg,     \* the dst_dir argument (raw path)
    locations,  \* the resolved mapping, in iteration order: Seq([dst, src])
    i,          \* index of the entry install_links is at (1-based)
    pc,         \* position in the program
    run,        \* which install_links call this is (1 or 2)
    verbose,    \* verbose_level
    out,        \* the notices printed so far
    renames,    \* the renames done in the current install_links call
    branch,     \* the branch every entry of the current call has taken
    err,        \* the exception that ended the run ("" when none)
    procs       \* concurrent installer processes, each with its own position

vars == <<fs, fs0, fsRun, fsPre, cfg, dstArg, locations, i, pc, run, verbose,
          out, renames, branch, err, procs>>

----------------------------------------------------------------------------
(* Bounds of the model *)

MaxEntries == 2      \* longest mapping
MaxBkp == 5          \* highest backup number present before a call
LoopLimit == 4       \* symlinks followed in one lookup before ELOOP

(* VerboseLevel, lines 57-74 *)
NOTHING == 0
RENAME_FILE == 1
CREATE_LINK == 2
LINK_OK == 3
MAX_VERBOSE == LINK_OK

----------------------------------------------------------------------------
(* Paths *)

N(s) == [n |-> s, b |-> <<>>]

DotDot == N("..")
Tilde == N("~")
NoPath == <<N("")>>          \* stands for None in a mapping value

Root == <<>>
Parent(p) == IF p = <<>> THEN <<>> ELSE SubSeq(p, 1, Len(p) - 1)
Last(p) == p[Len(p)]

IsPrefix(p, q) == Len(p) <= Len(q) /\ SubSeq(q, 1, Len(p)) = p
IsProperPrefix(p, q) == Len(p) < Len(q) /\ SubSeq(q, 1, Len(p)) = p

\* PurePath.parents: every proper lexical prefix of the path
Parents(p) == {SubSeq(p, 1, k) : k \in 0..(Len(p) - 1)}

\* Path(f"{p}.bkp_{i}"): the text ".bkp_<i>" appended to the last component
BackupName(p, k) ==
    IF p = <<>> THEN <<[n |-> "", b |-> <<k>>]>>
    ELSE Parent(p) \o <<[n |-> Last(p).n, b |-> Append(Last(p).b, k)]>>

----------------------------------------------------------------------------
(* File system entries *)

File(id) == [k |-> "file", id |-> id, to |-> <<>>]
Dir(id) == [k |-> "dir", id |-> id, to |-> <<>>]
Link(id, target) == [k |-> "link", id |-> id, to |-> target]

IsDirAt(f, rp) == rp = <<>> \/ (rp \in DOMAIN f /\ f[rp].k = "dir")
Present(f, rp) == rp = <<>> \/ rp \in DOMAIN f

(* Path lookup as the kernel does it: every component but the last is      *)
(* followed when it is a symlink, the last one only when follow is set.    *)
(* Symlink targets are absolute.  The result is the real path the path     *)
(* denotes (which need not exist) or the errno of the lookup.              *)
RECURSIVE Walk(_, _, _, _, _)
Walk(f, cur, rest, follow, fuel) ==
    IF rest = <<>> THEN [st |-> "ok", p |-> cur]
    ELSE IF ~IsDirAt(f, cur)
    THEN [st |-> IF cur \in DOMAIN f THEN "ENOTDIR" ELSE "ENOENT", p |-> cur]
    ELSE LET nxt == Append(cur, Head(rest))
             tl == Tail(rest)
         IN  IF nxt \in DOMAIN f /\ f[nxt].k = "link" /\ (tl # <<>> \/ follow)
             THEN IF fuel = 0 THEN [st |-> "ELOOP", p |-> nxt]
                  ELSE Walk(f, <<>>, f[nxt].to \o tl, follow, fuel - 1)
             ELSE Walk(f, nxt, tl, follow, fuel)

LStat(f, p) == Walk(f, <<>>, p, FALSE, LoopLimit)
Stat(f, p) == Walk(f, <<>>, p, TRUE, LoopLimit)

\* what a finished lookup r found
Found(f, r) == r.st = "ok" /\ Present(f, r.p)
FoundDir(f, r) == r.st = "ok" /\ IsDirAt(f, r.p)
FoundLink(f, r) == r.st = "ok" /\ r.p \in DOMAIN f /\ f[r.p].k = "link"

\* Path.exists(follow_symlinks=...): lookup errors read as "does not exist"
Exists(f, p, follow) == Found(f, Walk(f, <<>>, p, follow, LoopLimit))

\* Path.is_dir(): follows symlinks
Is_dir(f, p) == FoundDir(f, Stat(f, p))

\* Path.is_symlink()
Is_symlink(f, p) == FoundLink(f, LStat(f, p))

\* Path.readlink(), called only where is_symlink holds
Readlink(f, p) == f[LStat(f, p).p].to

\* The entry a path denotes without following its last component
EntryAt(f, p) == f[LStat(f, p).p]

\* The entries beneath a real path, keyed by their path relative to it
Subtree(f, rp) ==
    LET keys == {x \in DOMAIN f : IsProperPrefix(rp, x)}
        rel == {SubSeq(x, Len(rp) + 1, Len(x)) : x \in keys}
    IN  [y \in rel |-> f[rp \o y]]

----------------------------------------------------------------------------
(* The system calls that change the file system.  Each returns the new     *)
(* file system and an errno ("" on success).                               *)

\* os.rename, given what the lookups of the two paths found: an existing
\* non-directory, or an empty directory under a directory, at rb is replaced
RenameAt(f, ra, rb) ==
    IF ra.st # "ok" THEN [fs |-> f, errno |-> ra.st]
    ELSE IF rb.st # "ok" THEN [fs |-> f, errno |-> rb.st]
    ELSE IF ra.p \notin DOMAIN f THEN [fs |-> f, errno |-> "ENOENT"]
    ELSE IF ra.p = rb.p THEN [fs |-> f, errno |-> ""]
    ELSE IF IsPrefix(ra.p, rb.p) THEN [fs |-> f, errno |-> "EINVAL"]
    ELSE IF rb.p \in DOMAIN f /\ f[ra.p].k # "dir" /\ f[rb.p].k = "dir"
    THEN [fs |-> f, errno |-> "EISDIR"]
    ELSE IF rb.p \in DOMAIN f /\ f[ra.p].k = "dir" /\ f[rb.p].k # "dir"
    THEN [fs |-> f, errno |-> "ENOTDIR"]
    ELSE IF rb.p \in DOMAIN f /\ \E x \in DOMAIN f : IsProperPrefix(rb.p, x)
    THEN [fs |-> f, errno |-> "ENOTEMPTY"]
    ELSE [fs |-> [y \in {x \in DOMAIN f : ~IsPrefix(ra.p, x) /\ x # rb.p}
                     \cup {rb.p \o SubSeq(x, Len(ra.p) + 1, Len(x)) :
                             x \in {z \in DOMAIN f : IsPrefix(ra.p, z)}} |->
                    IF IsPrefix(rb.p, y)
                    THEN f[ra.p \o SubSeq(y, Len(rb.p) + 1, Len(y))]
                    ELSE f[y]],
          errno |-> ""]

\* os.rename(a, b)
OsRename(f, a, b) == RenameAt(f, LStat(f, a), LStat(f, b))

\* a new entry e at the place the lookup r found free
CreateAt(f, r, e) ==
    IF r.st # "ok" THEN [fs |-> f, errno |-> r.st]
    ELSE IF Present(f, r.p) THEN [fs |-> f, errno |-> "EEXIST"]
    ELSE [fs |-> [y \in DOMAIN f \cup {r.p} |-> IF y = r.p THEN e ELSE f[y]],
          errno |-> ""]

\* os.mkdir(p)
OsMkdir(f, p) == CreateAt(f, LStat(f, p), Dir(0))

\* os.symlink(target, p)
OsSymlink(f, target, p) == CreateAt(f, LStat(f, p), Link(0, target))

\* Variant: mkdir(exist_ok=True) without parents=True
MkdirOnce(f, p, r) ==
    IF r.errno = "" \/ (r.errno # "ENOENT" /\ Is_dir(f, p))
    THEN [fs |-> r.fs, errno |-> ""]
    ELSE r
MkdirNoParents(f, p) == MkdirOnce(f, p, OsMkdir(f, p))

(* Path.mkdir(parents=True, exist_ok=True): os.mkdir; on ENOENT make the   *)
(* parent the same way and retry; on any other error succeed only if the   *)
(* path is a directory.                                                    *)
RECURSIVE MkdirParents(_, _)

\* the retry, r being what os.mkdir(p) returned the second time
MkdirRetried(f, p, r) ==
    IF r.errno = "" \/ Is_dir(f, p) THEN [fs |-> r.fs, errno |-> ""] ELSE r

\* after the parent was made, r being what that returned
MkdirAfterParent(p, r) ==
    IF r.errno # "" THEN r ELSE MkdirRetried(r.fs, p, OsMkdir(r.fs, p))

\* r is what the first os.mkdir(p) returned
MkdirTried(f, p, r) ==
    IF r.errno = "" THEN r
    ELSE IF r.errno = "ENOENT"
    THEN IF p = <<>> THEN r
         ELSE MkdirAfterParent(p, MkdirParents(f, Parent(p)))
    ELSE IF Is_dir(f, p) THEN [fs |-> f, errno |-> ""]
    ELSE r

MkdirParents(f, p) == MkdirTried(f, p, OsMkdir(f, p))

----------------------------------------------------------------------------
(* safe_remove, lines 77-104.  Install paths are absolute by construction, *)
(* so the is_absolute guards of lines 91, 120 and 122 never fire.          *)

Notice(kind, a, b, isdir) == [kind |-> kind, a |-> a, b |-> b, dir |-> isdir]

\* Variant: the search of lines 95-98 with exists() following symlinks
RECURSIVE FirstFreeFollow(_, _, _)
FirstFreeFollow(f, p, k) ==
    IF ~Exists(f, BackupName(p, k), TRUE) THEN k
    ELSE FirstFreeFollow(f, p, k + 1)

\* Variant: the search of lines 95-98 stopping at the first name it tries
FirstFreeUnchecked(f, p, k) == k

\* lines 95-98: the first number, counting from k, with nothing at p.bkp_<it>
RECURSIVE FirstFree(_, _, _)
FirstFree(f, p, k) ==
    IF ~Exists(f, BackupName(p, k), FALSE) THEN k ELSE FirstFree(f, p, k + 1)

\* lines 101-104, r being what p.rename(p_backup) did
SafeRemoveRenamed(p, p_backup, note, r) ==
    IF r.errno # ""
    THEN [fs |-> r.fs, out |-> note, err |-> "OSError", ret |-> NoPath]
    ELSE IF Exists(r.fs, p, FALSE)
    THEN [fs |-> r.fs, out |-> note, err |-> "RuntimeError", ret |-> NoPath]
    ELSE [fs |-> r.fs, out |-> note, err |-> "", ret |-> p_backup]

\* Variant: the rename of line 101 made under the if of line 99
SafeRemoveToGated(f, p, v, p_backup) ==
    IF v >= RENAME_FILE
    THEN SafeRemoveRenamed(p, p_backup,
                           <<Notice("renaming", p, p_backup, FALSE)>>,
                           OsRename(f, p, p_backup))
    ELSE SafeRemoveRenamed(p, p_backup, <<>>, [fs |-> f, errno |-> ""])

\* lines 99-104, p_backup being the name the search of lines 95-98 chose
SafeRemoveTo(f, p, v, p_backup) ==
    SafeRemoveRenamed(p, p_backup,
                      IF v >= RENAME_FILE
                      THEN <<Notice("renaming", p, p_backup, FALSE)>>
                      ELSE <<>>,
                      OsRename(f, p, p_backup))

\* Variant: safe_remove without the check of lines 93-94
SafeRemoveUnchecked(f, p, v) ==
    SafeRemoveTo(f, p, v, BackupName(p, FirstFree(f, p, 0)))

\* lines 91-104
SafeRemove(f, p, v) ==
    IF ~Exists(f, p, FALSE)
    THEN [fs |-> f, out |-> <<>>, err |-> "ValueError", ret |-> NoPath]
    ELSE SafeRemoveTo(f, p, v, BackupName(p, FirstFree(f, p, 0)))

----------------------------------------------------------------------------
(* safe_link, lines 107-137, in three steps: the checks and the backup     *)
(* (lines 120-133), the notice and the parent directories (134-136), the   *)
(* symlink (137).  Each step returns the new file system, the notices it   *)
(* printed, the exception it raised ("" when none) and what follows.       *)

\* Variant: line 128 comparing what the two paths resolve to
AlreadyLinkedResolved(f, src, dst) ==
    /\ Is_symlink(f, dst)
    /\ Stat(f, dst).st = "ok"
    /\ Stat(f, dst).p = Stat(f, src).p

\* line 128: dst is already the wanted symlink
AlreadyLinked(f, src, dst) == Is_symlink(f, dst) /\ Readlink(f, dst) = src

\* what safe_link goes on with once safe_remove(dst) returned r (line 133)
AfterRemove(r) ==
    [fs |-> r.fs, out |-> r.out, err |-> r.err,
     to |-> IF r.err = "" THEN "mkdir" ELSE "raise", ret |-> r.ret]

\* line 129-131
LinkedNotice(src, dst, v, is_dir) ==
    IF v >= LINK_OK THEN <<Notice("exists", dst, src, is_dir)>> ELSE <<>>

\* Variant: the check of line 128 made before the check of line 125
SafeLinkCheckLinkedFirst(f, src, dst, v) ==
    IF Is_symlink(f, dst) /\ Readlink(f, dst) = src
    THEN [fs |-> f, out |-> LinkedNotice(src, dst, v, Is_dir(f, src)),
          err |-> "", to |-> "return", ret |-> NoPath]
    ELSE IF ~Exists(f, src, TRUE)
    THEN [fs |-> f, out |-> <<>>, err |-> "ValueError", to |-> "raise",
          ret |-> NoPath]
    ELSE IF Exists(f, dst, FALSE) THEN AfterRemove(SafeRemove(f, dst, v))
    ELSE [fs |-> f, out |-> <<>>, err |-> "", to |-> "mkdir", ret |-> NoPath]

\* Variant: lines 120-133 without the backup of lines 132-133
SafeLinkCheckNoBackup(f, src, dst, v) ==
    IF ~Exists(f, src, TRUE)
    THEN [fs |-> f, out |-> <<>>, err |-> "ValueError", to |-> "raise",
          ret |-> NoPath]
    ELSE IF AlreadyLinked(f, src, dst)
    THEN [fs |-> f, out |-> LinkedNotice(src, dst, v, Is_dir(f, src)),
          err |-> "", to |-> "return", ret |-> NoPath]
    ELSE [fs |-> f, out |-> <<>>, err |-> "", to |-> "mkdir", ret |-> NoPath]

\* lines 120-133
SafeLinkCheck(f, src, dst, v) ==
    IF ~Exists(f, src, TRUE)
    THEN [fs |-> f, out |-> <<>>, err |-> "ValueError", to |-> "raise",
          ret |-> NoPath]
    ELSE IF AlreadyLinked(f, src, dst)
    THEN [fs |-> f, out |-> LinkedNotice(src, dst, v, Is_dir(f, src)),
          err |-> "", to |-> "return", ret |-> NoPath]
    ELSE IF Exists(f, dst, FALSE) THEN AfterRemove(SafeRemove(f, dst, v))
    ELSE [fs |-> f, out |-> <<>>, err |-> "", to |-> "mkdir", ret |-> NoPath]

\* an OSError when the system call r failed
Raised(r) == IF r.errno = "" THEN "" ELSE "OSError"

\* lines 134-136; is_dir is the value line 124 computed when the call began
SafeLinkMkdirDone(note, r) == [fs |-> r.fs, out |-> note, err |-> Raised(r)]

\* Variant: the notice of lines 134-135 printed from RENAME_FILE on
SafeLinkMkdirChatty(f, src, dst, v, is_dir) ==
    SafeLinkMkdirDone(IF v >= RENAME_FILE
                      THEN <<Notice("linking", dst, src, is_dir)>> ELSE <<>>,
                      MkdirParents(f, Parent(dst)))

SafeLinkMkdir(f, src, dst, v, is_dir) ==
    SafeLinkMkdirDone(IF v >= CREATE_LINK
                      THEN <<Notice("linking", dst, src, is_dir)>> ELSE <<>>,
                      MkdirParents(f, Parent(dst)))

\* line 137
SafeLinkSymlinkDone(r) == [fs |-> r.fs, err |-> Raised(r)]
SafeLinkSymlink(f, src, dst) == SafeLinkSymlinkDone(OsSymlink(f, src, dst))

----------------------------------------------------------------------------
(* read_locations_file, lines 163-226.  A raw string of the TOML data is   *)
(* [e, abs, c]: e says it is the empty string, abs that it starts with     *)
(* "/", c holds its components ("." and empty components dropped, as Path  *)
(* does; ".." kept).                                                       *)

Raw(abs, c) == [e |-> FALSE, abs |-> abs, c |-> c]
EmptyStr == [e |-> TRUE, abs |-> FALSE, c |-> <<>>]
Dot == Raw(FALSE, <<>>)
NoneP == [abs |-> FALSE, c |-> NoPath]     \* None before the paths are joined

Cwd == <<N("cwd")>>
Home == <<N("D")>>
SrcArg == Raw(TRUE, <<N("S")>>)

\* Path(s)
ToPath(raw) == [abs |-> raw.abs, c |-> raw.c]
\* Path.absolute()
Absolute(pp) == IF pp.abs THEN pp.c ELSE Cwd \o pp.c
\* Path.expanduser()
ExpandUser(pp) ==
    IF ~pp.abs /\ pp.c # <<>> /\ Head(pp.c) = Tilde
    THEN [abs |-> TRUE, c |-> Home \o Tail(pp.c)]
    ELSE pp
\* base / pp, base absolute
Join(base, pp) == IF pp.abs THEN pp.c ELSE base \o pp.c

\* dict insertion: a key already present keeps its place and takes the value
RECURSIVE DictPut(_, _, _)
DictPut(d, key, val) ==
    IF d = <<>> THEN <<[dst |-> key, src |-> val]>>
    ELSE IF Head(d).dst = key THEN <<[dst |-> key, src |-> val]>> \o Tail(d)
    ELSE <<Head(d)>> \o DictPut(Tail(d), key, val)

\* line 198
RECURSIVE ParseData(_)
ParseData(data) ==
    IF data = <<>> THEN <<>>
    ELSE LET e == data[Len(data)]
         IN  DictPut(ParseData(SubSeq(data, 1, Len(data) - 1)), ToPath(e.dst),
                     IF e.src.e THEN NoneP ELSE ToPath(e.src))

\* lines 210-213
RECURSIVE Resolve(_, _, _)
Resolve(locs, src_dir, dst_dir) ==
    IF locs = <<>> THEN <<>>
    ELSE LET e == locs[Len(locs)]
         IN  DictPut(Resolve(SubSeq(locs, 1, Len(locs) - 1), src_dir, dst_dir),
                     Join(dst_dir, ExpandUser(e.dst)),
                     IF e.src = NoneP THEN NoPath ELSE Join(src_dir, e.src))

\* line 205
SrcAllRelative(locs) ==
    \A k \in 1..Len(locs) : locs[k].src = NoneP \/ ~locs[k].src.abs
\* lines 215-217
DstAllInside(full, dst_dir) ==
    \A k \in 1..Len(full) : dst_dir \in Parents(full[k].dst)
\* Variant: lines 219-221 accepting src_dir itself as a source
SrcAllInsideOrEqual(full, src_dir) ==
    \A k \in 1..Len(full) :
        \/ full[k].src = NoPath
        \/ full[k].src = src_dir
        \/ src_dir \in Parents(full[k].src)

\* lines 219-221
SrcAllInside(full, src_dir) ==
    \A k \in 1..Len(full) :
        full[k].src = NoPath \/ src_dir \in Parents(full[k].src)

\* lines 199-226, locs being the dict of line 198 and full that of line 210
ReadChecked(locs, full, src_dir, dst_dir, allow_outside, fail_rel, fail_abs) ==
    IF fail_rel /\ \E k \in 1..Len(locs) : ~locs[k].dst.abs
    THEN [err |-> "dst must be absolute", locs |-> <<>>]
    ELSE IF fail_abs /\ \E k \in 1..Len(locs) : locs[k].dst.abs
    THEN [err |-> "dst must be relative", locs |-> <<>>]
    ELSE IF ~SrcAllRelative(locs)
    THEN [err |-> "src must be relative", locs |-> <<>>]
    ELSE IF ~allow_outside /\ ~DstAllInside(full, dst_dir)
    THEN [err |-> "dst must be inside", locs |-> <<>>]
    ELSE IF ~SrcAllInside(full, src_dir)
    THEN [err |-> "src must be inside", locs |-> <<>>]
    ELSE [err |-> "", locs |-> full]

\* lines 208-226
ReadResolved(locs, src_dir, dst_dir, allow_outside, fail_rel, fail_abs) ==
    ReadChecked(locs, Resolve(locs, src_dir, dst_dir), src_dir, dst_dir,
                allow_outside, fail_rel, fail_abs)

ReadLocationsFile(data, src_arg, dst_arg, allow_outside, fail_rel, fail_abs) ==
    IF fail_rel /\ fail_abs THEN [err |-> "both", locs |-> <<>>]
    ELSE ReadResolved(ParseData(data), Absolute(ToPath(src_arg)),
                      Absolute(ToPath(dst_arg)),
                      allow_outside, fail_rel, fail_abs)

\* One whole call safe_link(src, dst), lines 107-137: c is what lines 120-133
\* did, m what lines 134-136 did, r what line 137 did.  br names the branch:
\* "raise" (line 127, or safe_remove raised), "exists" (line 131), "link",
\* "backup+link".
BranchOf(c) ==
    IF c.to = "raise" THEN "raise"
    ELSE IF c.to = "return" THEN "exists"
    ELSE IF c.ret = NoPath THEN "link"
    ELSE "backup+link"

SafeLinkLinked(c, m, r) ==
    [fs |-> r.fs, out |-> c.out \o m.out, err |-> r.err, ret |-> c.ret,
     br |-> BranchOf(c)]

SafeLinkAfterMkdir(c, m, src, dst) ==
    IF m.err # ""
    THEN [fs |-> m.fs, out |-> c.out \o m.out, err |-> m.err, ret |-> c.ret,
          br |-> BranchOf(c)]
    ELSE SafeLinkLinked(c, m, SafeLinkSymlink(m.fs, src, dst))

SafeLinkAfterCheck(c, f, src, dst, v) ==
    IF c.to # "mkdir"
    THEN [fs |-> c.fs, out |-> c.out, err |-> c.err, ret |-> c.ret,
          br |-> BranchOf(c)]
    ELSE SafeLinkAfterMkdir(c, SafeLinkMkdir(c.fs, src, dst, v, Is_dir(f, src)),
                            src, dst)

SafeLink(f, src, dst, v) ==
    SafeLinkAfterCheck(SafeLinkCheck(f, src, dst, v), f, src, dst, v)

----------------------------------------------------------------------------
(* install_links, lines 140-160, and main, lines 255-272 *)

\* line 158, r being what safe_remove returned
Removed(r) ==
    [fs |-> r.fs, out |-> r.out, err |-> r.err, ret |-> r.ret, br |-> "backup"]

\* Variant: a removal entry that deletes what is at dst
InstallRemoveDelete(f, dst, v) ==
    IF Exists(f, dst, FALSE)
    THEN [fs |-> [y \in {x \in DOMAIN f : ~IsPrefix(LStat(f, dst).p, x)} |->
                    f[y]],
          out |-> <<>>, err |-> "", ret |-> NoPath, br |-> "backup"]
    ELSE [fs |-> f, out |-> <<>>, err |-> "", ret |-> NoPath, br |-> "absent"]

\* Variant: line 157 with exists() following symlinks
InstallRemoveFollow(f, dst, v) ==
    IF Exists(f, dst, TRUE) THEN Removed(SafeRemove(f, dst, v))
    ELSE [fs |-> f, out |-> <<>>, err |-> "", ret |-> NoPath, br |-> "absent"]

\* lines 156-158: a removal entry
InstallRemove(f, dst, v) ==
    IF Exists(f, dst, FALSE) THEN Removed(SafeRemove(f, dst, v))
    ELSE [fs |-> f, out |-> <<>>, err |-> "", ret |-> NoPath, br |-> "absent"]

\* Variant: a loop that catches the exception and goes on to the next entry
PropagateSwallow(e, k, pcNext, kNext) ==
    IF e # "" THEN [pc |-> "loop", i |-> k + 1]
    ELSE [pc |-> pcNext, i |-> kNext]

\* No try/except anywhere: an exception raised at entry k leaves the loop of
\* line 155 and ends the run; otherwise control goes on as written.
Propagate(e, k, pcNext, kNext) ==
    IF e # "" THEN [pc |-> "error", i |-> k] ELSE [pc |-> pcNext, i |-> kNext]

\* Variant: a main that installs the entries read before the rejected one
MainReadPartial(data, dst_arg) ==
    IF ReadLocationsFile(data, SrcArg, dst_arg, FALSE, FALSE, FALSE).err # ""
       /\ Len(data) > 1
    THEN ReadLocationsFile(SubSeq(data, 1, 1), SrcArg, dst_arg,
                           FALSE, FALSE, FALSE)
    ELSE ReadLocationsFile(data, SrcArg, dst_arg, FALSE, FALSE, FALSE)

\* line 271: main hands install_links what read_locations_file returned, if
\* it returned
MainRead(data, dst_arg) ==
    ReadLocationsFile(data, SrcArg, dst_arg, FALSE, FALSE, FALSE)

Rename(k, a, b) == [k |-> k, from |-> a, to |-> b]

\* lines 156-160: one turn of the loop, on entry e
ApplyEntry(f, e, v) ==
    IF e.src = NoPath THEN InstallRemove(f, e.dst, v)
    ELSE SafeLink(f, e.src, e.dst, v)

\* lines 155-160: the loop from entry k on, acc holding the file system, the
\* notices and the renames so far; r is what the turn on entry k did.  The
\* result names the entry that raised (0 when none did).
RECURSIVE InstallLinksFrom(_, _, _, _)
InstallLinksRenamed(locs, k, acc, r) ==
    IF r.ret = NoPath THEN acc.renames
    ELSE Append(acc.renames, Rename(k, locs[k].dst, r.ret))
InstallLinksTurn(locs, v, k, acc, r) ==
    IF r.err # ""
    THEN [fs |-> r.fs, out |-> acc.out \o r.out, err |-> r.err, k |-> k,
          renames |-> InstallLinksRenamed(locs, k, acc, r)]
    ELSE InstallLinksFrom(locs, v, k + 1,
                          [fs |-> r.fs, out |-> acc.out \o r.out,
                           renames |-> InstallLinksRenamed(locs, k, acc, r)])
InstallLinksFrom(locs, v, k, acc) ==
    IF k > Len(locs)
    THEN [fs |-> acc.fs, out |-> acc.out, err |-> "", k |-> 0,
          renames |-> acc.renames]
    ELSE InstallLinksTurn(locs, v, k, acc, ApplyEntry(acc.fs, locs[k], v))

\* lines 140-160
InstallLinks(f, locs, v) ==
    InstallLinksFrom(locs, v, 1, [fs |-> f, out |-> <<>>, renames |-> <<>>])

----------------------------------------------------------------------------
(* The initial states of a run of main *)

D == <<N("D")>>
S == <<N("S")>>
P(names) == [k \in 1..Len(names) |-> N(names[k])]
Bk(p, k) == BackupName(p, k)

FsOf(set) == [x \in {e[1] : e \in set} |-> (CHOOSE e \in set : e[1] = x)[2]]

BaseFs ==
    { <<D, Dir(1)>>, <<S, Dir(2)>>, <<P(<<"S", "s">>), File(3)>>,
      <<P(<<"S", "t">>), Dir(4)>>, <<P(<<"S", "t", "x">>), File(5)>> }

AChoices ==
    { {}, {<<P(<<"D", "a">>), File(6)>>},
      {<<P(<<"D", "a">>), Link(6, P(<<"S", "s">>))>>} }
ABkChoices == { {}, {<<Bk(P(<<"D", "a">>), 0), File(7)>>} }
DChoices ==
    { {}, {<<P(<<"D", "d">>), File(8)>>},
      {<<P(<<"D", "d">>), Dir(8)>>, <<P(<<"D", "d", "x">>), File(9)>>},
      {<<P(<<"D", "d">>), Link(8, P(<<"S", "t">>))>>} }

InitFs ==
    {FsOf(BaseFs \cup a \cup b \cup d) :
        a \in AChoices, b \in ABkChoices, d \in DChoices}

\* the keys and values a locations.toml of the model may hold
DstKeys ==
    { Raw(FALSE, P(<<"a">>)), Raw(FALSE, Bk(P(<<"a">>), 0)),
      Raw(FALSE, P(<<"d">>)), Raw(FALSE, P(<<"d", "x">>)) }
SrcVals ==
    { Raw(FALSE, P(<<"s">>)), Raw(FALSE, P(<<"t">>)), Raw(FALSE, P(<<"m">>)),
      EmptyStr }
BadEntries ==
    { [dst |-> Raw(TRUE, P(<<"E", "a">>)), src |-> Raw(FALSE, P(<<"s">>))],
      [dst |-> Raw(FALSE, P(<<"a">>)), src |-> Raw(TRUE, P(<<"S", "s">>))] }
CfgEntries == [dst : DstKeys, src : SrcVals] \cup BadEntries

RECURSIVE SeqsUpTo(_, _)
SeqsUpTo(set, n) ==
    IF n = 0 THEN {<<>>}
    ELSE LET shorter == SeqsUpTo(set, n - 1)
         IN  shorter \cup {Append(q, e) : q \in shorter, e \in set}

\* TOML keys are unique
DistinctKeys(c) ==
    \A j, k \in 1..Len(c) : j # k => c[j].dst # c[k].dst

Configs ==
    {c \in SeqsUpTo(CfgEntries, MaxEntries) : c # <<>> /\ DistinctKeys(c)}

Init ==
    /\ fs \in InitFs
    /\ fs0 = fs /\ fsRun = fs /\ fsPre = fs
    /\ cfg \in Configs
    /\ dstArg = Raw(TRUE, D)
    /\ locations = <<>>
    /\ i = 1
    /\ pc = "read"
    /\ run = 1
    /\ verbose \in NOTHING..MAX_VERBOSE
    /\ out = <<>> /\ renames = <<>> /\ branch = <<>>
    /\ err = ""
    /\ procs = <<>>

----------------------------------------------------------------------------
(* The steps *)

\* main, line 271
Read ==
    /\ pc = "read"
    /\ \E r \in {MainRead(cfg, dstArg)} :
       \E c \in {Propagate(r.err, 1, "loop", 1)} :
           /\ locations' = r.locs
           /\ err' = r.err
           /\ pc' = c.pc
           /\ i' = c.i
    /\ UNCHANGED <<procs, fs, fs0, fsRun, fsPre, cfg, dstArg, run, verbose, out,
                   renames, branch>>

AtEntry == pc = "loop" /\ i <= Len(locations)

\* lines 155-158
RemoveEntry ==
    /\ AtEntry
    /\ locations[i].src = NoPath
    /\ \E r \in {InstallRemove(fs, locations[i].dst, verbose)} :
       \E c \in {Propagate(r.err, i, "loop", i + 1)} :
           /\ fs' = r.fs
           /\ out' = out \o r.out
           /\ err' = r.err
           /\ pc' = c.pc
           /\ i' = c.i
           /\ renames' = IF r.ret = NoPath THEN renames
                         ELSE Append(renames,
                                     Rename(i, locations[i].dst, r.ret))
           /\ branch' = Append(branch, r.br)
    /\ fsPre' = fs
    /\ UNCHANGED <<procs, fs0, fsRun, cfg, dstArg, locations, run, verbose>>

\* lines 155, 159-160 and safe_link up to line 133
LinkEntry ==
    /\ AtEntry
    /\ locations[i].src # NoPath
    /\ \E r \in {SafeLinkCheck(fs, locations[i].src, locations[i].dst,
                               verbose)} :
       \E c \in {Propagate(r.err, i,
                           IF r.to = "return" THEN "loop" ELSE "mkdir",
                           IF r.to = "return" THEN i + 1 ELSE i)} :
           /\ fs' = r.fs
           /\ out' = out \o r.out
           /\ err' = r.err
           /\ pc' = c.pc
           /\ i' = c.i
           /\ renames' = IF r.ret = NoPath THEN renames
                         ELSE Append(renames,
                                     Rename(i, locations[i].dst, r.ret))
           /\ branch' = Append(branch,
                               IF r.to = "raise" THEN "raise"
                               ELSE IF r.to = "return" THEN "exists"
                               ELSE IF r.ret = NoPath THEN "link"
                               ELSE "backup+link")
    /\ fsPre' = fs
    /\ UNCHANGED <<procs, fs0, fsRun, cfg, dstArg, locations, run, verbose>>

\* safe_link lines 134-136
LinkMkdir ==
    /\ pc = "mkdir"
    /\ \E r \in {SafeLinkMkdir(fs, locations[i].src, locations[i].dst, verbose,
                               Is_dir(fsPre, locations[i].src))} :
       \E c \in {Propagate(r.err, i, "symlink", i)} :
           /\ fs' = r.fs
           /\ out' = out \o r.out
           /\ err' = r.err
           /\ pc' = c.pc
           /\ i' = c.i
    /\ UNCHANGED <<procs, fs0, fsRun, fsPre, cfg, dstArg, locations, run,
                   verbose, renames, branch>>

\* safe_link line 137
LinkSymlink ==
    /\ pc = "symlink"
    /\ \E r \in {SafeLinkSymlink(fs, locations[i].src, locations[i].dst)} :
       \E c \in {Propagate(r.err, i, "loop", i + 1)} :
           /\ fs' = r.fs
           /\ err' = r.err
           /\ pc' = c.pc
           /\ i' = c.i
    /\ UNCHANGED <<procs, fs0, fsRun, fsPre, cfg, dstArg, locations, run,
                   verbose, out, renames, branch>>

\* the loop of line 155 is exhausted: install_links returns
Return ==
    /\ pc = "loop"
    /\ i > Len(locations)
    /\ pc' = "done"
    /\ UNCHANGED <<procs, fs, fs0, fsRun, fsPre, cfg, dstArg, locations, i, run,
                   verbose, out, renames, branch, err>>

\* the caller applies the same mapping a second time
Rerun ==
    /\ pc = "done"
    /\ run = 1
    /\ run' = 2
    /\ pc' = "loop"
    /\ i' = 1
    /\ fsRun' = fs
    /\ fsPre' = fs
    /\ out' = <<>> /\ renames' = <<>> /\ branch' = <<>>
    /\ UNCHANGED <<procs, fs, fs0, cfg, dstArg, locations, verbose, err>>

Next ==
    \/ Read
    \/ RemoveEntry
    \/ LinkEntry
    \/ LinkMkdir
    \/ LinkSymlink
    \/ Return
    \/ Rerun

Spec == Init /\ [][Next]_vars

----------------------------------------------------------------------------
(* read_locations_file on its own: keys and values with "..", ".", "~",    *)
(* absolute paths and the empty string, and three dst_dir arguments.       *)

ReadDstKeys ==
    { Raw(FALSE, P(<<"a">>)), Raw(FALSE, P(<<"..", "x">>)),
      Raw(FALSE, P(<<"d", "..", "..", "x">>)), Raw(FALSE, P(<<"d", "..", "a">>)),
      Dot, Raw(FALSE, P(<<"~">>)), Raw(FALSE, P(<<"~", "a">>)),
      Raw(TRUE, P(<<"E", "a">>)), Raw(TRUE, P(<<"D", "a">>)) }
ReadSrcVals ==
    { Raw(FALSE, P(<<"s">>)), Raw(FALSE, P(<<"..", "x">>)),
      Raw(FALSE, P(<<"t", "..", "s">>)), Dot, EmptyStr,
      Raw(TRUE, P(<<"S", "s">>)) }
ReadDstArgs ==
    { Raw(TRUE, D), Raw(TRUE, P(<<"D", "c">>)), Raw(FALSE, P(<<"rel">>)) }

ReadConfigs ==
    {c \in SeqsUpTo([dst : ReadDstKeys, src : ReadSrcVals], MaxEntries) :
        c # <<>> /\ DistinctKeys(c)}

InitRead ==
    /\ fs = FsOf(BaseFs)
    /\ fs0 = fs /\ fsRun = fs /\ fsPre = fs
    /\ cfg \in ReadConfigs
    /\ dstArg \in ReadDstArgs
    /\ locations = <<>>
    /\ i = 1
    /\ pc = "read"
    /\ run = 1
    /\ verbose = MAX_VERBOSE
    /\ out = <<>> /\ renames = <<>> /\ branch = <<>>
    /\ err = ""
    /\ procs = <<>>

NextRead == Read

SpecRead == InitRead /\ [][NextRead]_vars

----------------------------------------------------------------------------
(* One entry applied on its own: install_links on a mapping of one entry,  *)
(* that is one call of safe_link(src, dst), or one removal.  The file      *)
(* system holds every kind of entry at the destination, at its backup      *)
(* names and on its parent chain.                                          *)

EntryBase ==
    BaseFs \cup
    { <<P(<<"S", "q">>), Link(10, P(<<"S", "s">>))>>,      \* valid symlink
      <<P(<<"S", "dl">>), Link(11, P(<<"S", "m">>))>>,     \* dangling symlink
      <<P(<<"D", "r">>), Dir(12)>>,
      <<P(<<"D", "l">>), Link(13, P(<<"D", "r">>))>>,      \* symlink to a dir
      <<P(<<"D", "f">>), File(14)>>,
      <<P(<<"D", "g">>), Link(15, P(<<"D", "zz">>))>> }    \* dangling symlink

EntrySrcs ==
    { P(<<"S", "s">>), P(<<"S", "t">>), P(<<"S", "m">>), P(<<"S", "dl">>),
      P(<<"S", "q">>), NoPath }

LinkTargets ==
    { P(<<"S", "s">>), P(<<"S", "t">>), P(<<"S", "m">>), P(<<"S", "q">>) }

\* what may sit at the real path rp of the destination
DstChoices(rp) ==
    { {}, {<<rp, File(20)>>},
      {<<rp, Dir(20)>>, <<Append(rp, N("c")), File(21)>>} }
    \cup { {<<rp, Link(20, t)>>} : t \in LinkTargets }

BackupKinds(n) ==
    { File(30 + n), Dir(30 + n), Link(30 + n, P(<<"S", "s">>)),
      Link(30 + n, P(<<"S", "m">>)) }

\* backups of rp present beforehand: any set of numbers up to top, all of the
\* kind the selector kd names
BackupChoices(rp, top) ==
    { { <<Bk(rp, n), CHOOSE e \in BackupKinds(n) : e.k = kd.k /\ e.to = kd.to>>
        : n \in B } : B \in SUBSET (0..top), kd \in BackupKinds(0) }

\* the calls of the model: the destination, the source (NoPath for a removal)
\* and the file system.  Three families: every set of backups under a
\* replaceable destination; every kind of destination and source, directly
\* under dst_dir and under a symlinked directory; destinations whose parent
\* chain is missing, a regular file or a dangling symlink.
EntryCases ==
    { [dst |-> P(<<"D", "a">>), src |-> src,
       fs |-> FsOf(EntryBase \cup e \cup b)] :
        e \in { {<<P(<<"D", "a">>), File(20)>>},
                {<<P(<<"D", "a">>), Link(20, P(<<"S", "m">>))>>} },
        b \in BackupChoices(P(<<"D", "a">>), MaxBkp),
        src \in {P(<<"S", "s">>), NoPath} }
    \cup
    { [dst |-> P(<<"D", "a">>), src |-> src,
       fs |-> FsOf(EntryBase \cup e \cup b)] :
        e \in DstChoices(P(<<"D", "a">>)),
        b \in { {}, {<<Bk(P(<<"D", "a">>), 0), File(30)>>} },
        src \in EntrySrcs }
    \cup
    { [dst |-> P(<<"D", "l", "a">>), src |-> src,
       fs |-> FsOf(EntryBase \cup e \cup b)] :
        e \in DstChoices(P(<<"D", "r", "a">>)),
        b \in { {}, {<<Bk(P(<<"D", "r", "a">>), 0), File(30)>>} },
        src \in EntrySrcs }
    \cup
    { [dst |-> d, src |-> src, fs |-> FsOf(EntryBase)] :
        d \in { P(<<"D", "n", "y", "a">>), P(<<"D", "f", "a">>),
                P(<<"D", "g", "a">>) },
        src \in EntrySrcs }

InitEntry ==
    /\ \E c \in EntryCases :
        /\ fs = c.fs
        /\ locations = <<[dst |-> c.dst, src |-> c.src]>>
    /\ fs0 = fs /\ fsRun = fs /\ fsPre = fs
    /\ cfg = <<>>
    /\ dstArg = Raw(TRUE, D)
    /\ i = 1
    /\ pc = "loop"
    /\ run = 1
    /\ verbose \in NOTHING..MAX_VERBOSE
    /\ out = <<>> /\ renames = <<>> /\ branch = <<>>
    /\ err = ""
    /\ procs = <<>>

NextEntry ==
    \/ RemoveEntry
    \/ LinkEntry
    \/ LinkMkdir
    \/ LinkSymlink
    \/ Return

SpecEntry == InitEntry /\ [][NextEntry]_vars

----------------------------------------------------------------------------
(* Two installer processes at once on one file system.  Nothing in the     *)
(* code locks: each pathlib call is one system call, and the calls of the  *)
(* two processes interleave freely.  A process applies one entry; its      *)
(* position is the line of its next call, n is the number i of the loop of *)
(* lines 95-98.                                                            *)

Proc(dst, src) ==
    [dst |-> dst, src |-> src, pc |-> IF src = NoPath THEN "l157" ELSE "l124",
     n |-> 0, is_dir |-> FALSE, err |-> ""]

\* Variant: line 97 with exists() following symlinks
BackupTakenFollow(f, p, k) == Exists(f, BackupName(p, k), TRUE)

\* line 97: something is at p.bkp_<k>
BackupTaken(f, p, k) == Exists(f, BackupName(p, k), FALSE)

RaceFs ==
    {FsOf(BaseFs \cup a \cup b) :
        a \in { {}, {<<P(<<"D", "a">>), File(6)>>},
                {<<P(<<"D", "a">>), Dir(6)>>, <<P(<<"D", "a", "c">>), File(9)>>},
                {<<P(<<"D", "a">>), Link(6, P(<<"S", "t">>))>>} },
        b \in { {}, {<<Bk(P(<<"D", "a">>), 0), File(7)>>},
                {<<Bk(P(<<"D", "a">>), 0), Link(7, P(<<"S", "m">>))>>} } }

RaceSrcs == { P(<<"S", "s">>), P(<<"S", "t">>), P(<<"S", "m">>), NoPath }

InitRace ==
    /\ fs \in RaceFs
    /\ fs0 = fs /\ fsRun = fs /\ fsPre = fs
    /\ cfg = <<>>
    /\ dstArg = Raw(TRUE, D)
    /\ locations = <<>>
    /\ i = 1
    /\ pc = "race"
    /\ run = 1
    /\ verbose = MAX_VERBOSE
    /\ out = <<>> /\ renames = <<>> /\ branch = <<>>
    /\ err = ""
    /\ \E s1, s2 \in RaceSrcs :
          procs = <<Proc(P(<<"D", "a">>), s1), Proc(P(<<"D", "a">>), s2)>>

\* process p moves to position q
Goto(p, q) == procs' = [procs EXCEPT ![p].pc = q]
\* process p ends with exception e
Raise(p, e) == procs' = [procs EXCEPT ![p].pc = "error", ![p].err = e]

RaceFrame == UNCHANGED <<fs0, fsRun, fsPre, cfg, dstArg, locations, i, pc,
                         run, verbose, branch, err>>

\* lines 124-127
PSrc(p) ==
    /\ procs[p].pc = "l124"
    /\ IF Exists(fs, procs[p].src, TRUE)
       THEN procs' = [procs EXCEPT ![p].pc = "l128",
                                   ![p].is_dir = Is_dir(fs, procs[p].src)]
       ELSE Raise(p, "ValueError")
    /\ UNCHANGED <<fs, out, renames>>
    /\ RaceFrame

\* lines 128-131
PLinked(p) ==
    /\ procs[p].pc = "l128"
    /\ IF AlreadyLinked(fs, procs[p].src, procs[p].dst)
       THEN /\ Goto(p, "done")
            /\ out' = out \o LinkedNotice(procs[p].src, procs[p].dst, verbose,
                                          procs[p].is_dir)
       ELSE /\ Goto(p, "l132")
            /\ out' = out
    /\ UNCHANGED <<fs, renames>>
    /\ RaceFrame

\* line 132, and line 157 for a removal entry
PDst(p) ==
    /\ procs[p].pc \in {"l132", "l157"}
    /\ IF Exists(fs, procs[p].dst, FALSE) THEN Goto(p, "l93")
       ELSE IF procs[p].src = NoPath THEN Goto(p, "done")
       ELSE Goto(p, "l134")
    /\ UNCHANGED <<fs, out, renames>>
    /\ RaceFrame

\* lines 93-94
PPre(p) ==
    /\ procs[p].pc = "l93"
    /\ IF Exists(fs, procs[p].dst, FALSE)
       THEN procs' = [procs EXCEPT ![p].pc = "l97", ![p].n = 0]
       ELSE Raise(p, "ValueError")
    /\ UNCHANGED <<fs, out, renames>>
    /\ RaceFrame

\* lines 95-98, one turn of the loop
PSearch(p) ==
    /\ procs[p].pc = "l97"
    /\ IF BackupTaken(fs, procs[p].dst, procs[p].n)
       THEN /\ procs[p].n <= MaxBkp
            /\ procs' = [procs EXCEPT ![p].n = @ + 1]
       ELSE Goto(p, "l99")
    /\ UNCHANGED <<fs, out, renames>>
    /\ RaceFrame

\* lines 99-101
PRename(p) ==
    /\ procs[p].pc = "l99"
    /\ \E r \in {OsRename(fs, procs[p].dst,
                          BackupName(procs[p].dst, procs[p].n))} :
          /\ fs' = r.fs
          /\ IF r.errno = ""
             THEN /\ Goto(p, "l102")
                  /\ renames' =
                        Append(renames,
                               Rename(p, procs[p].dst,
                                      BackupName(procs[p].dst, procs[p].n)))
             ELSE /\ Raise(p, "OSError")
                  /\ renames' = renames
    /\ out' = out \o (IF verbose >= RENAME_FILE
                      THEN <<Notice("renaming", procs[p].dst,
                                    BackupName(procs[p].dst, procs[p].n),
                                    FALSE)>>
                      ELSE <<>>)
    /\ RaceFrame

\* lines 102-104, then back in safe_link or install_links
PPost(p) ==
    /\ procs[p].pc = "l102"
    /\ IF Exists(fs, procs[p].dst, FALSE) THEN Raise(p, "RuntimeError")
       ELSE IF procs[p].src = NoPath THEN Goto(p, "done")
       ELSE Goto(p, "l134")
    /\ UNCHANGED <<fs, out, renames>>
    /\ RaceFrame

\* lines 134-136
PMkdir(p) ==
    /\ procs[p].pc = "l134"
    /\ \E r \in {SafeLinkMkdir(fs, procs[p].src, procs[p].dst, verbose,
                               procs[p].is_dir)} :
          /\ fs' = r.fs
          /\ out' = out \o r.out
          /\ IF r.err = "" THEN Goto(p, "l137") ELSE Raise(p, r.err)
    /\ UNCHANGED renames
    /\ RaceFrame

\* line 137
PSymlink(p) ==
    /\ procs[p].pc = "l137"
    /\ \E r \in {SafeLinkSymlink(fs, procs[p].src, procs[p].dst)} :
          /\ fs' = r.fs
          /\ IF r.err = "" THEN Goto(p, "done") ELSE Raise(p, r.err)
    /\ UNCHANGED <<out, renames>>
    /\ RaceFrame

NextRace ==
    \E p \in 1..2 :
        \/ PSrc(p)
        \/ PLinked(p)
        \/ PDst(p)
        \/ PPre(p)
        \/ PSearch(p)
        \/ PRename(p)
        \/ PPost(p)
        \/ PMkdir(p)
        \/ PSymlink(p)

SpecRace == InitRace /\ [][NextRace]_vars

----------------------------------------------------------------------------
(* safe_remove(p) called on its own, on the destinations and file systems  *)
(* of the single-entry cases: p may hold anything, or nothing.             *)

RemoveCases == {[p |-> c.dst, fs |-> c.fs] : c \in EntryCases}

InitRemove ==
    /\ \E c \in RemoveCases :
        /\ fs = c.fs
        /\ locations = <<[dst |-> c.p, src |-> NoPath]>>
    /\ fs0 = fs /\ fsRun = fs /\ fsPre = fs
    /\ cfg = <<>>
    /\ dstArg = Raw(TRUE, D)
    /\ i = 1
    /\ pc = "call"
    /\ run = 1
    /\ verbose \in NOTHING..MAX_VERBOSE
    /\ out = <<>> /\ renames = <<>> /\ branch = <<>>
    /\ err = ""
    /\ procs = <<>>

\* lines 77-104
CallSafeRemove ==
    /\ pc = "call"
    /\ \E r \in {SafeRemove(fs, locations[1].dst, verbose)} :
       \E c \in {Propagate(r.err, 1, "done", 1)} :
           /\ fs' = r.fs
           /\ out' = out \o r.out
           /\ err' = r.err
           /\ pc' = c.pc
           /\ i' = c.i
           /\ renames' = IF r.ret = NoPath THEN renames
                         ELSE Append(renames,
                                     Rename(1, locations[1].dst, r.ret))
    /\ UNCHANGED <<procs, fs0, fsRun, fsPre, cfg, dstArg, locations, run,
                   verbose, branch>>

NextRemove == CallSafeRemove

SpecRemove == InitRemove /\ [][NextRemove]_vars

----------------------------------------------------------------------------
(* Vocabulary of the properties *)

\* the one entry of SpecEntry
TheDst == locations[1].dst
TheSrc == locations[1].src

\* nothing of any kind is at the path (its last component is not followed)
NothingAt(f, p) == LET r == LStat(f, p) IN r.st # "ok" \/ ~Present(f, r.p)

\* the smallest number n with nothing at p.bkp_n
MinFree(f, p) ==
    CHOOSE n \in 0..Cardinality(DOMAIN f) :
        /\ NothingAt(f, Bk(p, n))
        /\ \A m \in 0..(n - 1) : ~NothingAt(f, Bk(p, m))

\* what was at path p in f0 is at path q in f1, with everything beneath it
MovedTo(f0, f1, p, q) ==
    LET r0 == LStat(f0, p)
        r1 == LStat(f1, q)
    IN  /\ r0.st = "ok" /\ r0.p \in DOMAIN f0
        /\ r1.st = "ok" /\ r1.p \in DOMAIN f1
        /\ f1[r1.p] = f0[r0.p]
        /\ Subtree(f1, r1.p) = Subtree(f0, r0.p)

\* every entry of f0 is still where it was, unchanged
Kept(f0, f1) == \A x \in DOMAIN f0 : x \in DOMAIN f1 /\ f1[x] = f0[x]

\* the current step is one in which safe_remove(dst) is called: line 158, or
\* line 133 once the checks of lines 125 and 128 have passed
CallsSafeRemove ==
    /\ AtEntry
    /\ Exists(fs, locations[i].dst, FALSE)
    /\ \/ locations[i].src = NoPath
       \/ /\ Exists(fs, locations[i].src, TRUE)
          /\ ~(Is_symlink(fs, locations[i].dst)
               /\ Readlink(fs, locations[i].dst) = locations[i].src)

----------------------------------------------------------------------------
(* C5 -- Backup naming: safe_remove(p) on an existing p renames p to       *)
(* p.bkp_N for the smallest N >= 0 such that nothing of any kind (file,    *)
(* directory, valid or dangling symlink) is at p.bkp_N when it is called.  *)
C5_BackupNaming ==
    [][ CallsSafeRemove =>
          LET p == locations[i].dst
              b == Bk(p, MinFree(fs, p))
          IN  /\ MovedTo(fs, fs', p, b)
              /\ NothingAt(fs', p)
              /\ renames' = Append(renames, Rename(i, p, b)) ]_vars

\* p.bkp_0 .. p.bkp_4 were there, as dangling symlinks, and p went to p.bkp_5
C5_Witness ==
    /\ renames = <<Rename(1, TheDst, Bk(TheDst, 5))>>
    /\ \A n \in 0..4 : Is_symlink(fs0, Bk(TheDst, n))
                       /\ ~Exists(fs0, Bk(TheDst, n), TRUE)
    /\ MovedTo(fs0, fs, TheDst, Bk(TheDst, 5))

----------------------------------------------------------------------------
(* C6 -- Overwrite with backup: when source exists and dest holds anything *)
(* but a symlink whose literal target is source, a successful              *)
(* safe_link(source, dest) leaves dest a symlink to source and what was at *)
(* dest, unchanged, at dest.bkp_N for the N of the backup rule; the rename *)
(* is done before the symlink is made.                                     *)
C6_Pre ==
    /\ TheSrc # NoPath
    /\ Exists(fs0, TheSrc, TRUE)
    /\ ~NothingAt(fs0, TheDst)
    /\ ~(Is_symlink(fs0, TheDst) /\ Readlink(fs0, TheDst) = TheSrc)

C6_OverwriteWithBackup ==
    C6_Pre =>
        LET b == Bk(TheDst, MinFree(fs0, TheDst))
        IN  /\ pc \in {"mkdir", "symlink"} =>
                  MovedTo(fs0, fs, TheDst, b) /\ NothingAt(fs, TheDst)
            /\ pc = "done" =>
                  /\ Is_symlink(fs, TheDst)
                  /\ Readlink(fs, TheDst) = TheSrc
                  /\ MovedTo(fs0, fs, TheDst, b)

\* a directory was at dest and dest.bkp_0 was taken
C6_Witness ==
    /\ pc = "done"
    /\ C6_Pre
    /\ EntryAt(fs0, TheDst).k = "dir"
    /\ ~NothingAt(fs0, Bk(TheDst, 0))
    /\ Is_symlink(fs, TheDst)

----------------------------------------------------------------------------
(* C8 -- Removal: for a removal entry, an entry at dest (a dangling        *)
(* symlink counts) is moved to a backup name and nothing remains at dest;  *)
(* with nothing at dest there is no mutation and no notice, whatever the   *)
(* verbosity.                                                              *)
C8_Removal ==
    TheSrc = NoPath =>
        IF NothingAt(fs0, TheDst)
        THEN fs = fs0 /\ out = <<>> /\ pc # "error"
        ELSE i > 1 =>
               /\ NothingAt(fs, TheDst)
               /\ \E n \in 0..Cardinality(DOMAIN fs0) :
                      /\ NothingAt(fs0, Bk(TheDst, n))
                      /\ MovedTo(fs0, fs, TheDst, Bk(TheDst, n))

\* a dangling symlink was removed
C8_Witness ==
    /\ TheSrc = NoPath
    /\ pc = "done"
    /\ Is_symlink(fs0, TheDst) /\ ~Exists(fs0, TheDst, TRUE)
    /\ NothingAt(fs, TheDst)

----------------------------------------------------------------------------
(* C9 -- Source missing: when source does not exist with symlinks followed *)
(* (absent, or a dangling symlink), safe_link fails and the file system is *)
(* untouched, also when dest is already a symlink to that source.          *)
C9_SourceMissing ==
    (TheSrc # NoPath /\ ~Exists(fs0, TheSrc, TRUE)) =>
        /\ fs = fs0
        /\ pc \in {"loop", "error"}
        /\ pc = "loop" => i = 1
        /\ pc = "error" => err = "ValueError"

\* dest was already a symlink to the missing source
C9_Witness ==
    /\ pc = "error"
    /\ TheSrc # NoPath /\ ~Exists(fs0, TheSrc, TRUE)
    /\ Is_symlink(fs0, TheDst) /\ Readlink(fs0, TheDst) = TheSrc

----------------------------------------------------------------------------
(* C7 -- Link creation.  As claimed: whenever source exists and nothing is *)
(* at dest, safe_link makes dest's parent chain exist and ends with dest a *)
(* symlink whose literal target is source, with no backup made and no      *)
(* pre-existing entry changed.                                             *)
C7_Pre ==
    /\ TheSrc # NoPath
    /\ Exists(fs0, TheSrc, TRUE)
    /\ NothingAt(fs0, TheDst)

C7_Post ==
    /\ Is_dir(fs, Parent(TheDst))
    /\ Is_symlink(fs, TheDst)
    /\ Readlink(fs, TheDst) = TheSrc
    /\ renames = <<>>
    /\ Kept(fs0, fs)
    /\ \A x \in DOMAIN fs \ DOMAIN fs0 :
          \/ x = LStat(fs, TheDst).p
          \/ fs[x].k = "dir" /\ IsProperPrefix(x, LStat(fs, TheDst).p)

C7_AsClaimed ==
    C7_Pre => pc # "error" /\ (pc = "done" => C7_Post)

\* every ancestor of dest that exists is a directory or a symlink to one
ParentChainOk(f, dst) ==
    \A q \in Parents(dst) : ~NothingAt(f, q) => Is_dir(f, q)

(* C7, amended: the same, provided no existing ancestor of dest is         *)
(* anything but a directory (or a symlink to one); with a regular file or  *)
(* a dangling symlink on the chain the call raises and changes nothing.    *)
C7_LinkCreation ==
    /\ (C7_Pre /\ ParentChainOk(fs0, TheDst)) =>
          pc # "error" /\ (pc = "done" => C7_Post)
    /\ (C7_Pre /\ ~ParentChainOk(fs0, TheDst)) =>
          pc # "done" /\ fs = fs0

\* two missing directories were created on the way
C7_Witness ==
    /\ pc = "done"
    /\ C7_Pre
    /\ NothingAt(fs0, Parent(Parent(TheDst)))
    /\ Is_symlink(fs, TheDst)

----------------------------------------------------------------------------
(* C3 -- Scope containment: read_locations_file with default flags either  *)
(* raises or returns a mapping in which every destination denotes a strict *)
(* descendant of dst_dir and every source of a link entry a strict         *)
(* descendant of src_dir, whatever "..", ".", "~" or absolute keys the     *)
(* config holds.                                                           *)

\* the location a path denotes: ".." steps to the parent
RECURSIVE Normalize(_)
Normalize(p) ==
    IF p = <<>> THEN <<>>
    ELSE IF Last(p) = DotDot THEN Parent(Normalize(Parent(p)))
    ELSE Append(Normalize(Parent(p)), Last(p))

C3_ScopeContainment ==
    (pc # "read" /\ err = "") =>
        \A k \in 1..Len(locations) :
            /\ IsProperPrefix(Normalize(Absolute(ToPath(dstArg))),
                              Normalize(locations[k].dst))
            /\ locations[k].src # NoPath =>
                  IsProperPrefix(Normalize(Absolute(ToPath(SrcArg))),
                                 Normalize(locations[k].src))

----------------------------------------------------------------------------
(* C4 -- Validate before mutate: in a run of main the whole mapping is     *)
(* resolved and validated before the first mutation; when any entry of the *)
(* config is rejected (destination outside dst_dir, absolute source) the   *)
(* file system stays as it was, also when entries before it are valid.     *)
EntryRejected(e) ==
    \/ ~e.src.e /\ e.src.abs
    \/ ~IsProperPrefix(D, Join(D, ExpandUser(ToPath(e.dst))))

C4_ValidateBeforeMutate ==
    /\ pc = "read" => fs = fs0
    /\ (\E k \in 1..Len(cfg) : EntryRejected(cfg[k])) =>
          fs = fs0 /\ locations = <<>> /\ pc \in {"read", "error"}
    /\ fs # fs0 => Len(locations) = Len(cfg)

\* the second entry is rejected; the first is valid and would have replaced
\* a regular file
C4_Witness ==
    /\ pc = "error"
    /\ Len(cfg) = 2
    /\ ~EntryRejected(cfg[1]) /\ EntryRejected(cfg[2])
    /\ ~cfg[1].src.e
    /\ Exists(fs0, Join(S, ToPath(cfg[1].src)), TRUE)
    /\ ~NothingAt(fs0, Join(D, ToPath(cfg[1].dst)))
    /\ EntryAt(fs0, Join(D, ToPath(cfg[1].dst))).k = "file"

----------------------------------------------------------------------------
(* C10 -- Fail fast, no rollback: when applying the k-th entry raises,     *)
(* install_links stops; the file system is the one entries 1..k-1 left,    *)
(* and nothing changes it afterwards.                                      *)
C10_FailFast ==
    /\ [](err # "" => pc = "error")
    /\ []((pc = "error" /\ locations # <<>>) =>
            /\ fs = fsPre
            /\ Len(branch) = i
            /\ branch[i] \in {"raise", "link"})
    /\ [][pc = "error" => fs' = fs /\ pc' = "error"]_vars

\* the second entry raised after the first had replaced something
C10_Witness ==
    /\ pc = "error"
    /\ i = 2
    /\ run = 1
    /\ Len(renames) = 1
    /\ fs # fs0
    /\ fs = fsPre

----------------------------------------------------------------------------
(* Mappings whose entries keep out of each other's way *)

\* q is, or lies beneath, a backup name p.bkp_<n> of p
UnderBackupOf(q, p) ==
    /\ p # <<>>
    /\ Len(q) >= Len(p)
    /\ SubSeq(q, 1, Len(p) - 1) = Parent(p)
    /\ q[Len(p)].n = Last(p).n
    /\ Len(q[Len(p)].b) = Len(Last(p).b) + 1
    /\ SubSeq(q[Len(p)].b, 1, Len(Last(p).b)) = Last(p).b

\* no destination is another destination, lies above or beneath one, or is
\* or lies beneath a backup name of one; no source is or lies beneath a
\* destination or a backup name of one
Separate(locs) ==
    \A j, k \in 1..Len(locs) :
        /\ j # k => /\ ~IsPrefix(locs[j].dst, locs[k].dst)
                    /\ ~UnderBackupOf(locs[j].dst, locs[k].dst)
        /\ locs[j].src # NoPath =>
               /\ ~IsPrefix(locs[k].dst, locs[j].src)
               /\ ~UnderBackupOf(locs[j].src, locs[k].dst)

\* the destination of entry k held a regular file or a directory at the start
PreExisted(k) ==
    /\ ~NothingAt(fs0, locations[k].dst)
    /\ EntryAt(fs0, locations[k].dst).k \in {"file", "dir"}

\* the numbers n with the original of entry k, unchanged, at dst.bkp_<n>
BackupsOf(k) ==
    {n \in 0..Cardinality(DOMAIN fs) :
        MovedTo(fs0, fs, locations[k].dst, Bk(locations[k].dst, n))}

\* the places named <something>.bkp_<n>, wherever they are, that hold the
\* original of entry k unchanged
BackupPathsOf(k) ==
    {q \in DOMAIN fs :
        /\ q # Root
        /\ Last(q).b # <<>>
        /\ MovedTo(fs0, fs, locations[k].dst, q)}

NoCollision ==
    \A j, k \in 1..Len(renames) : j # k => renames[j].to # renames[k].to

FirstRunDone == pc = "done" /\ run = 1

----------------------------------------------------------------------------
FilesUnder(f, p) ==
    {x \in DOMAIN f : IsPrefix(LStat(f, p).p, x) /\ f[x].k = "file"}

\* where entry e is now
PlacesOf(e) == {y \in DOMAIN fs : fs[y] = e}

----------------------------------------------------------------------------
(* C2 -- Idempotence: when install_links has completed and is run again on *)
(* the same mapping, the second run makes no backup and no mutation, every *)
(* entry taking its no-op branch (already linked; nothing to remove) --    *)
(* for any mapping, destinations nested under other destinations included. *)
SecondRunIdle ==
    /\ fs = fsRun
    /\ renames = <<>>
    /\ pc \in {"loop", "done"}
    /\ \A k \in 1..Len(branch) :
          branch[k] = IF locations[k].src = NoPath THEN "absent" ELSE "exists"

C2_Idempotence == run = 2 => SecondRunIdle

\* what does hold: the second run is idle in a mapping whose entries keep out
\* of each other's way
IdempotentWhenSeparate == (run = 2 /\ Separate(locations)) => SecondRunIdle

----------------------------------------------------------------------------
(* C11 -- Recoverability at every intermediate state: in every state of a  *)
(* single-process run (between the backup rename and the symlink creation, *)
(* after an abort, in a second run) every entry the file system held at    *)
(* the start is still there, unchanged, at exactly one place, which is its *)
(* original path or that path with .bkp_N suffixes added; no step makes    *)
(* the file system hold fewer entries and no rename goes to an occupied    *)
(* name.                                                                   *)

\* y is x, or x with .bkp_<n> suffixes added to some of its names
RenamedFrom(x, y) ==
    /\ Len(y) = Len(x)
    /\ \A j \in 1..Len(x) :
          /\ y[j].n = x[j].n
          /\ Len(y[j].b) >= Len(x[j].b)
          /\ SubSeq(y[j].b, 1, Len(x[j].b)) = x[j].b

\* the places of file system f with the entry at each
Placed(f) == {<<y, f[y]>> : y \in DOMAIN f}

AllRecoverable ==
    LET now == Placed(fs)
    IN  \A x \in Placed(fs0) :
            LET places == {q \in now : q[2] = x[2]}
            IN  /\ Cardinality(places) = 1
                /\ \A q \in places : RenamedFrom(x[1], q[1])

NothingDestroyed ==
    /\ Cardinality(DOMAIN fs') >= Cardinality(DOMAIN fs)
    /\ {q[2] : q \in Placed(fs)} \subseteq {q[2] : q \in Placed(fs')}
    /\ Len(renames') > Len(renames) =>
          NothingAt(fs, renames'[Len(renames')].to)

C11_Recoverability == []AllRecoverable /\ [][NothingDestroyed]_vars

\* the window: the old entry is at its backup name, next to an older backup,
\* and nothing is at dest yet
C11_Witness ==
    /\ pc = "symlink"
    /\ Len(renames) = 1
    /\ renames[1].k = i
    /\ NothingAt(fs, locations[i].dst)
    /\ ~NothingAt(fs0, Bk(locations[i].dst, 0))
    /\ MovedTo(fs0, fs, locations[i].dst, Bk(locations[i].dst, 1))

----------------------------------------------------------------------------
(* C12 -- Cross-process race: with two installer processes on the same     *)
(* destination, the search for a free backup name (lines 95-98) and the    *)
(* rename (line 101) being separate unlocked steps, an entry the file      *)
(* system held at the start is lost exactly when both processes renamed to *)
(* the same .bkp_N name, the later rename replacing the backup the earlier *)
(* one made; and such an interleaving exists.                              *)

Lost == {x \in DOMAIN fs0 : PlacesOf(fs0[x]) = {}}

SameBackupName ==
    /\ Len(renames) = 2
    /\ renames[1].k # renames[2].k
    /\ renames[1].to = renames[2].to

C12_CrossProcessRace == Lost # {} <=> SameBackupName

\* both processes chose a.bkp_0, both renames went through, and the file
\* that was at a is nowhere
C12_Witness ==
    /\ procs[1].n = procs[2].n
    /\ SameBackupName
    /\ procs[1].pc = "done" /\ procs[2].pc = "done"
    /\ P(<<"D", "a">>) \in Lost
    /\ fs0[P(<<"D", "a">>)].k = "file"

----------------------------------------------------------------------------
(* C13 -- Entry independence: for every mapping, the branch an entry       *)
(* takes, whether it fails, and what it leaves at its own destination are  *)
(* what they would be had the entry been applied on its own to the file    *)
(* system the run started with: no entry's outcome depends on another      *)
(* entry's (nested destinations, backup-named destinations and             *)
(* destinations under a path an earlier entry made a symlink included).    *)

\* what is at path p: its kind and target, or "nothing"
At(f, p) ==
    IF NothingAt(f, p) THEN [k |-> "nothing", to |-> <<>>]
    ELSE [k |-> EntryAt(f, p).k, to |-> EntryAt(f, p).to]

\* entry k has just been finished, or has just failed
JustApplied(k) ==
    /\ run = 1
    /\ k \in 1..Len(locations)
    /\ Len(branch) = k
    /\ \/ pc = "loop" /\ i = k + 1
       \/ pc = "error" /\ i = k

SameAsAlone(k, alone) ==
    /\ branch[k] = alone.br
    /\ err = alone.err
    /\ At(fs, locations[k].dst) = At(alone.fs, locations[k].dst)

C13_EntryIndependence ==
    \A k \in 1..Len(locations) :
        JustApplied(k) =>
            SameAsAlone(k, ApplyEntry(fs0, locations[k], verbose))

\* what does hold: the same for mappings whose entries keep out of each
\* other's way
IndependentWhenSeparate ==
    \A k \in 1..Len(locations) :
        (JustApplied(k) /\ Separate(locations)) =>
            SameAsAlone(k, ApplyEntry(fs0, locations[k], verbose))

----------------------------------------------------------------------------
(* C14 -- Final layout: when install_links has completed on any resolved   *)
(* mapping, every non-removal destination is a symlink whose literal       *)
(* target is its source, something sits at the .bkp_N sibling every rename *)
(* of the run went to, and every backup that was there before the run is   *)
(* still in its place.                                                     *)

AllLinked ==
    \A k \in 1..Len(locations) :
        locations[k].src # NoPath =>
            AlreadyLinked(fs, locations[k].src, locations[k].dst)

BackupsInPlace ==
    /\ \A j \in 1..Len(renames) :
          /\ ~NothingAt(fs, renames[j].to)
          /\ \E n \in 0..Cardinality(DOMAIN fs) :
                renames[j].to = Bk(locations[renames[j].k].dst, n)
    /\ \A k \in 1..Len(locations), n \in 0..Cardinality(DOMAIN fsRun) :
          ~NothingAt(fsRun, Bk(locations[k].dst, n)) =>
              MovedTo(fsRun, fs, Bk(locations[k].dst, n),
                      Bk(locations[k].dst, n))

C14_FinalLayout == pc = "done" => (AllLinked /\ BackupsInPlace)

\* what does hold: the same for mappings whose entries keep out of each
\* other's way
FinalLayoutWhenSeparate ==
    (pc = "done" /\ Separate(locations)) => (AllLinked /\ BackupsInPlace)

----------------------------------------------------------------------------
(* C15 -- Single-entry no-op: when source exists and dest is a symlink     *)
(* whose literal target is source, safe_link(source, dest) changes nothing *)
(* in the file system (no backup, no directory, no symlink made); a        *)
(* symlink at dest with another literal target, also one that resolves to  *)
(* the same file, is backed up and replaced.                               *)
C15_SrcExists == TheSrc # NoPath /\ Exists(fs0, TheSrc, TRUE)

C15_NoOp ==
    /\ (C15_SrcExists /\ Is_symlink(fs0, TheDst)
        /\ Readlink(fs0, TheDst) = TheSrc) =>
           /\ fs = fs0
           /\ renames = <<>>
           /\ pc \in {"loop", "done"}
           /\ i > 1 => branch = <<"exists">>
    /\ (C15_SrcExists /\ Is_symlink(fs0, TheDst)
        /\ Readlink(fs0, TheDst) # TheSrc) =>
           /\ pc # "error"
           /\ i > 1 =>
                 /\ branch = <<"backup+link">>
                 /\ Len(renames) = 1
                 /\ MovedTo(fs0, fs, TheDst, renames[1].to)
                 /\ Is_symlink(fs, TheDst)
                 /\ Readlink(fs, TheDst) = TheSrc

\* dest was a symlink to a symlink to source: it resolved to source, and was
\* replaced all the same
C15_Witness ==
    /\ pc = "done"
    /\ C15_SrcExists
    /\ Is_symlink(fs0, TheDst)
    /\ Readlink(fs0, TheDst) # TheSrc
    /\ Stat(fs0, TheDst).st = "ok"
    /\ Stat(fs0, TheDst).p = Stat(fs0, TheSrc).p
    /\ Readlink(fs, TheDst) = TheSrc
    /\ Len(renames) = 1

----------------------------------------------------------------------------
(* C16 -- Ordering: install_links takes the entries in the iteration order *)
(* of the mapping, finishing one before it begins the next; within an      *)
(* entry the backup rename of dest is done before the parent directories   *)
(* and the symlink are made, and no step of another entry comes between.   *)

\* entries 1..i-1 have been taken and no other; in the middle of entry i its
\* backup is done and nothing is at dest
InOrder ==
    /\ pc = "loop" => Len(branch) = i - 1
    /\ pc \in {"mkdir", "symlink"} =>
          /\ Len(branch) = i
          /\ NothingAt(fs, locations[i].dst)
    /\ \A j \in 1..Len(renames) :
          /\ renames[j].k <= i
          /\ j > 1 => renames[j - 1].k <= renames[j].k

OneAtATime ==
    /\ pc # "done" => i' \in {i, i + 1}
    /\ Len(renames') > Len(renames) =>
          pc = "loop" /\ renames'[Len(renames')].k = i
    /\ pc \in {"mkdir", "symlink"} => renames' = renames
    /\ (pc # "done" /\ i' = i + 1) =>
          /\ pc' = "loop"
          /\ IF locations[i].src = NoPath
             THEN NothingAt(fs', locations[i].dst)
             ELSE AlreadyLinked(fs', locations[i].src, locations[i].dst)

C16_Ordering == []InOrder /\ [][OneAtATime]_vars

\* the second entry is between its backup and its symlink, the first having
\* made a backup and a link
C16_Witness ==
    /\ pc = "symlink"
    /\ i = 2
    /\ branch = <<"backup+link", "backup+link">>
    /\ Len(renames) = 2
    /\ AlreadyLinked(fs, locations[1].src, locations[1].dst)

----------------------------------------------------------------------------
(* C17 -- Backup precondition: safe_remove(path) with nothing at path (the *)
(* last name not followed) raises, changes nothing and prints nothing; a   *)
(* dangling symlink at path is there, and is backed up like anything else; *)
(* in a single-process run the check after the rename never fails.         *)
C17_BackupPrecondition ==
    pc # "call" =>
        /\ err # "RuntimeError"
        /\ IF NothingAt(fs0, TheDst)
           THEN /\ pc = "error"
                /\ err = "ValueError"
                /\ fs = fs0
                /\ out = <<>>
           ELSE /\ pc = "done"
                /\ NothingAt(fs, TheDst)
                /\ renames = <<Rename(1, TheDst,
                                      Bk(TheDst, MinFree(fs0, TheDst)))>>
                /\ MovedTo(fs0, fs, TheDst, renames[1].to)

\* a dangling symlink was backed up
C17_Witness ==
    /\ pc = "done"
    /\ Is_symlink(fs0, TheDst)
    /\ ~Exists(fs0, TheDst, TRUE)
    /\ Is_symlink(fs, Bk(TheDst, 0))
    /\ NothingAt(fs, TheDst)

----------------------------------------------------------------------------
(* C18 -- Verbosity gating.  Once an entry has been applied, alone or not:  *)
(* one rename notice per backup made, from verbosity 1 on; one "linking"   *)
(* notice per entry that took the creation path of safe_link (the source   *)
(* exists, the destination is not yet the wanted symlink), from verbosity  *)
(* 2 on -- it is printed before the parent directories and the symlink are *)
(* made, so it stands for a symlink that was attempted, made or not; one   *)
(* "exists" notice per entry found already linked, at verbosity 3; nothing *)
(* at verbosity 0; and the notices of the run at level w are among those   *)
(* of the same run at level w + 1.                                         *)
Count(kind) == Cardinality({j \in 1..Len(out) : out[j].kind = kind})
NoticesOf(o) == {o[j] : j \in 1..Len(o)}
Began(brs) == {k \in 1..Len(branch) : branch[k] \in brs}
BetweenEntries == pc \in {"loop", "done", "error"} /\ locations # <<>>
RunOver == pc \in {"done", "error"} /\ locations # <<>>

GatedRename ==
    /\ Count("renaming") = IF verbose >= RENAME_FILE THEN Len(renames) ELSE 0
    /\ \A j \in 1..Len(renames) :
          verbose >= RENAME_FILE =>
              Notice("renaming", renames[j].from, renames[j].to, FALSE)
                  \in NoticesOf(out)
GatedExists ==
    Count("exists") = IF verbose >= LINK_OK
                      THEN Cardinality(Began({"exists"})) ELSE 0
GatedLinking ==
    Count("linking") = IF verbose >= CREATE_LINK
                       THEN Cardinality(Began({"link", "backup+link"})) ELSE 0
\* the entries whose symlink was made: the creation path, and no exception
Created == {k \in Began({"link", "backup+link"}) : k < i}
LinkingWhenCreated ==
    Count("linking") = IF verbose >= CREATE_LINK THEN Cardinality(Created)
                       ELSE 0
Silent == verbose = NOTHING => out = <<>>
\* the run is the one install_links makes, and its notices grow with the level
Monotone ==
    /\ \E r \in {InstallLinks(fsRun, locations, verbose)} :
          out = r.out /\ fs = r.fs /\ err = r.err
    /\ \A w \in NOTHING..(MAX_VERBOSE - 1) :
          NoticesOf(InstallLinks(fsRun, locations, w).out)
              \subseteq NoticesOf(InstallLinks(fsRun, locations, w + 1).out)

C18_VerbosityGating ==
    /\ BetweenEntries =>
          GatedRename /\ GatedLinking /\ GatedExists /\ Silent
    /\ RunOver => Monotone

\* the parent directories could not be made: the notice is there, no symlink
C18_Witness ==
    /\ pc = "error"
    /\ locations # <<>>
    /\ verbose = CREATE_LINK
    /\ branch[i] = "link"
    /\ Notice("linking", locations[i].dst, locations[i].src, FALSE)
           \in NoticesOf(out)
    /\ ~Is_symlink(fs, locations[i].dst)

\* C18 as stated: a "linking" notice exactly for the symlinks that were made
C18_AsClaimed ==
    /\ BetweenEntries =>
          GatedRename /\ LinkingWhenCreated /\ GatedExists /\ Silent
    /\ RunOver => Monotone

----------------------------------------------------------------------------
(* C19 -- Verbosity non-interference: a run of install_links, at whatever  *)
(* level, makes the renames, ends in the file system and raises the        *)
(* exception, at the entry, of the silent run from the same file system    *)
(* and mapping; and each of its steps changes the file system, raises and  *)
(* goes on as the same step does at level 0.  So two runs that differ only *)
(* in the level make the same changes and end alike.                       *)
SameAsSilent ==
    \E r \in {InstallLinks(fsRun, locations, NOTHING)} :
        /\ r.fs = fs
        /\ r.err = err
        /\ r.renames = renames
        /\ r.k = IF pc = "error" THEN i ELSE 0

SameOutcome(r) == r.fs = fs' /\ r.err = err'

StepBlind ==
    /\ (AtEntry /\ locations[i].src = NoPath) =>
          \E r \in {InstallRemove(fs, locations[i].dst, NOTHING)} :
              /\ SameOutcome(r)
              /\ (r.ret # NoPath) = (Len(renames') > Len(renames))
    /\ (AtEntry /\ locations[i].src # NoPath) =>
          \E r \in {SafeLinkCheck(fs, locations[i].src, locations[i].dst,
                                  NOTHING)} :
              /\ SameOutcome(r)
              /\ (r.ret # NoPath) = (Len(renames') > Len(renames))
              /\ (r.to = "mkdir") = (pc' = "mkdir")
    /\ pc = "mkdir" =>
          SameOutcome(SafeLinkMkdir(fs, locations[i].src, locations[i].dst,
                                    NOTHING, Is_dir(fsPre, locations[i].src)))

C19_NonInterference ==
    /\ [](RunOver => SameAsSilent)
    /\ [][StepBlind]_vars

\* a run at the chattiest level that made a backup and a link and reported
\* them, where the silent run prints nothing
C19_Witness ==
    /\ pc = "done"
    /\ verbose = MAX_VERBOSE
    /\ Len(out) >= 2
    /\ Len(renames) >= 1
    /\ "backup+link" \in {branch[k] : k \in 1..Len(branch)}
    /\ InstallLinks(fsRun, locations, NOTHING).out = <<>>

----------------------------------------------------------------------------
(* C20 -- The check of lines 219-224 after the check of line 205.  Once    *)
(* every source is relative, the check that src_dir is among the parents   *)
(* of every resolved source fails only for a source without components     *)
(* (`.`): src_dir / "." is src_dir, which is not its own parent.  It does  *)
(* fail whenever such a source is in the resolved mapping and the          *)
(* destinations were accepted.  For relative sources of one component or   *)
(* more, `..` included, it never fails.                                    *)
Parsed == ParseData(cfg)
Resolved == Resolve(Parsed, Absolute(ToPath(SrcArg)), Absolute(ToPath(dstArg)))
SomeSrcIsDot ==
    \E k \in 1..Len(Parsed) :
        /\ Parsed[k].src # NoneP
        /\ ~Parsed[k].src.abs
        /\ Parsed[k].src.c = <<>>
SomeSrcIsSrcDir ==
    \E k \in 1..Len(Resolved) : Resolved[k].src = Absolute(ToPath(SrcArg))

====
